---- MODULE Spec2Model ----
(***************************************************************************)
(* A model of server.py: the two tools of the "StockAgent" server.         *)
(*                                                                         *)
(*   is_portfolio_question(question)   keyword classifier (pure)           *)
(*   get_portfolio(access_key, source) JSON fetch-and-index                *)
(*                                                                         *)
(* A Python str is modelled as a sequence of characters, each character a  *)
(* one-element token.  The module is ASCII, so a Hangul syllable is named  *)
(* by its romanisation with the prefix "hg_" (hg_po is U+D3EC), and the    *)
(* two non-ASCII Latin characters used are named "I_dot" (U+0130) and      *)
(* "dot_above" (U+0307).                                                   *)
(***************************************************************************)
EXTENDS Integers, Sequences, FiniteSets

VARIABLES fs, web, environ, last, cls

vars == <<fs, web, environ, last, cls>>

(***************************************************************************)
(* Python str operations                                                   *)
(***************************************************************************)

\* s.startswith(prefix)
StartsWith(s, prefix) ==
    /\ Len(prefix) <= Len(s)
    /\ SubSeq(s, 1, Len(prefix)) = prefix

\* needle in hay, for two strs: substring containment
Contains(hay, needle) ==
    \E i \in 0..(Len(hay) - Len(needle)) :
        SubSeq(hay, i + 1, i + Len(needle)) = needle

\* The lower-case mapping of one character.  Hangul syllables, digits,
\* spaces and punctuation have no case; U+0130 lower-cases to two
\* characters.
LowerChar(c) ==
    CASE c = "A" -> <<"a">>
      [] c = "B" -> <<"b">>
      [] c = "I_dot" -> <<"i", "dot_above">>
      [] OTHER -> <<c>>

RECURSIVE Lower(_)
\* s.lower()
Lower(s) ==
    IF s = <<>> THEN <<>> ELSE LowerChar(Head(s)) \o Lower(Tail(s))

(***************************************************************************)
(* is_portfolio_question                                                   *)
(***************************************************************************)

\* The keyword list, in the order of the source.
portfolio_keywords ==
    << <<"hg_po", "hg_teu", "hg_pol", "hg_ri", "hg_o">>,
       <<"hg_nae", " ", "hg_ju", "hg_sik">>,
       <<"hg_nae", " ", "hg_tu", "hg_ja">>,
       <<"hg_bo", "hg_yu", " ", "hg_ju", "hg_sik">>,
       <<"hg_tu", "hg_ja", " ", "hg_hyeon", "hg_hwang">>,
       <<"hg_nae", " ", "hg_gye", "hg_jwa">>,
       <<"hg_nae", " ", "hg_ja", "hg_san">>,
       <<"hg_tu", "hg_ja", " ", "hg_seong", "hg_gwa">>,
       <<"hg_su", "hg_ik", "hg_ryul">>,
       <<"hg_bo", "hg_yu", " ", "hg_jong", "hg_mok">> >>

ReasonRelated == "a portfolio keyword is included"
ReasonUnrelated == "no portfolio keyword"

\* A variant of KeywordIn that matches a keyword only where the question
\* begins.
KeywordIn_prefix(kw, question_lower) == StartsWith(question_lower, kw)

\* kw in question_lower, the test both comprehensions of the function use
KeywordIn(kw, question_lower) == Contains(question_lower, kw)

\* A variant of is_portfolio_question that stops at the first keyword
\* found.
is_portfolio_question_first(question) ==
    LET question_lower == Lower(question)
        Matches(kw) == KeywordIn(kw, question_lower)
        found == SelectSeq(portfolio_keywords, Matches)
    IN  [is_portfolio_related |-> found # <<>>,
         reason |-> IF found # <<>> THEN ReasonRelated ELSE ReasonUnrelated,
         detected_keywords |-> IF found = <<>> THEN <<>> ELSE <<found[1]>>]

is_portfolio_question(question) ==
    LET question_lower == Lower(question)
        is_related == \E i \in 1..Len(portfolio_keywords) :
                          KeywordIn(portfolio_keywords[i], question_lower)
        reason == IF is_related THEN ReasonRelated ELSE ReasonUnrelated
        Matches(kw) == KeywordIn(kw, question_lower)
    IN  [is_portfolio_related |-> is_related,
         reason |-> reason,
         detected_keywords |-> SelectSeq(portfolio_keywords, Matches)]

(***************************************************************************)
(* The questions the host asks: up to MaxFrags fragments, concatenated.    *)
(***************************************************************************)
MaxFrags == 2

Fragments ==
    { portfolio_keywords[i] : i \in 1..Len(portfolio_keywords) } \cup
    { <<"hg_nae">>, <<" ">>, <<"hg_ju", "hg_sik">>, <<"hg_tu", "hg_ja">>,
      <<" ", "hg_hyeon", "hg_hwang">>, <<"hg_su", "hg_ik">>, <<"hg_ryul">>,
      <<"hg_po", "hg_teu", "hg_pol", "hg_ri">>, <<"hg_o">>,
      <<"A">>, <<"b">>, <<"I_dot">> }

RECURSIVE Concat(_)
Concat(parts) ==
    IF parts = <<>> THEN <<>> ELSE Head(parts) \o Concat(Tail(parts))

Questions ==
    { Concat(parts) : parts \in UNION { [1..n -> Fragments] : n \in 0..MaxFrags } }

NoClassification ==
    [is_portfolio_related |-> FALSE, reason |-> "", detected_keywords |-> <<>>]

\* The host calls the tool is_portfolio_question with the pending question.
IsPortfolioQuestion ==
    /\ ~cls.called
    /\ cls' = [called |-> TRUE, question |-> cls.question,
               result |-> is_portfolio_question(cls.question)]
    /\ UNCHANGED <<fs, web, environ, last>>

(***************************************************************************)
(* JSON text and Python values                                             *)
(*                                                                         *)
(* A JSON text is a sequence of tokens [k, s]: k is the token kind (a      *)
(* punctuation mark, "str", "num" or "lit") and s its characters.  A       *)
(* Python value is a record [t, s, m]: t the type name, s the characters   *)
(* of a str or the digits of an int or the name of a bool, m the members   *)
(* of a dict or the items of a list, each [k, v] (k is <<>> in a list).    *)
(***************************************************************************)
Punct(p) == [k |-> p, s |-> <<>>]
StrTok(s) == [k |-> "str", s |-> s]
NumTok(s) == [k |-> "num", s |-> s]
LitTok(s) == [k |-> "lit", s |-> s]

PyStr(s) == [t |-> "str", s |-> s, m |-> <<>>]
PyInt(s) == [t |-> "int", s |-> s, m |-> <<>>]
PyBool(s) == [t |-> "bool", s |-> s, m |-> <<>>]
PyNone == [t |-> "NoneType", s |-> <<>>, m |-> <<>>]
PyDict(members) == [t |-> "dict", s |-> <<>>, m |-> members]
PyList(items) == [t |-> "list", s |-> <<>>, m |-> items]

\* d[k] = v on the members of a dict: a repeated key keeps its position
\* and takes the new value.
DictSet(members, k, v) ==
    IF \E i \in 1..Len(members) : members[i].k = k
    THEN [i \in 1..Len(members) |->
             IF members[i].k = k THEN [k |-> k, v |-> v] ELSE members[i]]
    ELSE Append(members, [k |-> k, v |-> v])

ParseFail == [ok |-> FALSE, v |-> PyNone, rest |-> <<>>]
ParseOk(v, rest) == [ok |-> TRUE, v |-> v, rest |-> rest]

RECURSIVE ParseValue(_), ParseMembers(_, _), ParseItems(_, _)

\* One JSON value at the head of toks.
ParseValue(toks) ==
    IF toks = <<>> THEN ParseFail
    ELSE LET h == Head(toks)
             rest == Tail(toks)
         IN  CASE h.k = "str" -> ParseOk(PyStr(h.s), rest)
               [] h.k = "num" -> ParseOk(PyInt(h.s), rest)
               [] h.k = "lit" ->
                    IF h.s = <<"null">> THEN ParseOk(PyNone, rest)
                    ELSE ParseOk(PyBool(h.s), rest)
               [] h.k = "{" ->
                    IF rest # <<>> /\ Head(rest).k = "}"
                    THEN ParseOk(PyDict(<<>>), Tail(rest))
                    ELSE ParseMembers(rest, <<>>)
               [] h.k = "[" ->
                    IF rest # <<>> /\ Head(rest).k = "]"
                    THEN ParseOk(PyList(<<>>), Tail(rest))
                    ELSE ParseItems(rest, <<>>)
               [] OTHER -> ParseFail

\* The members of an object after "{" or ",": "key" : value, then "," or "}".
ParseMembers(toks, acc) ==
    IF Len(toks) < 2 \/ toks[1].k # "str" \/ toks[2].k # ":" THEN ParseFail
    ELSE LET val == ParseValue(SubSeq(toks, 3, Len(toks)))
         IN  IF ~val.ok \/ val.rest = <<>> THEN ParseFail
             ELSE LET acc2 == DictSet(acc, toks[1].s, val.v)
                      sep == Head(val.rest)
                  IN  CASE sep.k = "}" -> ParseOk(PyDict(acc2), Tail(val.rest))
                        [] sep.k = "," -> ParseMembers(Tail(val.rest), acc2)
                        [] OTHER -> ParseFail

\* The items of an array after "[" or ",": value, then "," or "]".
ParseItems(toks, acc) ==
    LET val == ParseValue(toks)
    IN  IF ~val.ok \/ val.rest = <<>> THEN ParseFail
        ELSE LET acc2 == Append(acc, [k |-> <<>>, v |-> val.v])
                 sep == Head(val.rest)
             IN  CASE sep.k = "]" -> ParseOk(PyList(acc2), Tail(val.rest))
                   [] sep.k = "," -> ParseItems(Tail(val.rest), acc2)
                   [] OTHER -> ParseFail

\* json.load / resp.json(): one value and nothing after it, else
\* json.JSONDecodeError.
json_load(toks) ==
    LET r == ParseValue(toks)
    IN  IF r.ok /\ r.rest = <<>>
        THEN [raised |-> FALSE, data |-> r.v]
        ELSE [raised |-> TRUE, data |-> PyNone]

(***************************************************************************)
(* The environment: the local files, the HTTP responses and os.environ     *)
(***************************************************************************)

\* The prefixes _load_json tests
HttpPrefix == <<"h", "t", "t", "p", ":", "/", "/">>
HttpsPrefix == <<"h", "t", "t", "p", "s", ":", "/", "/">>

\* The default source of get_portfolio_by_key, a local path
AaJson == <<"a", "a", ".", "j", "s", "o", "n">>
\* The default source of get_portfolio
JsonBin ==
    <<"h", "t", "t", "p", "s", ":", "/", "/", "j", "s", "o", "n", "b", "i", "n", ".", "i", "o", "/",
      "6", "8", "9", "5", "8", "9", "f", "c", "f", "7", "e", "7", "a", "3", "7", "0", "d", "1", "f", "7", "0", "9", "1", "4">>
\* A local path that begins like a URL but has neither prefix
NearUrl == <<"h", "t", "t", "p", ":", "/", "a">>
\* A plain-http URL
PlainUrl == <<"h", "t", "t", "p", ":", "/", "/", "h">>

Sources == {AaJson, NearUrl, PlainUrl, JsonBin}

\* The fallback constant of os.getenv("DEFAULT_ACCESS_KEY", "user123")
User123 == <<"u", "s", "e", "r", "1", "2", "3">>
U1 == <<"u", "1">>
EmptyStr == <<>>

\* Python values to store as documents.  Every member has its own value,
\* so that a value returned for the wrong key differs from the right one.
RecX1 == PyDict(<< [k |-> <<"x">>, v |-> PyInt(<<"1">>)] >>)
Store1 == PyDict(<< [k |-> U1, v |-> RecX1] >>)
Store2 == PyDict(<< [k |-> User123, v |-> PyStr(<<"p">>)],
                    [k |-> U1, v |-> PyInt(<<"2">>)] >>)
Store3 == PyDict(<< [k |-> EmptyStr, v |-> PyInt(<<"3">>)],
                    [k |-> U1, v |-> PyList(<< [k |-> <<>>, v |-> PyNone] >>)] >>)
ListDoc == PyList(<< [k |-> <<>>, v |-> PyStr(U1)] >>)
StrDoc == PyStr(<<"u", "1", "x">>)
IntDoc == PyInt(<<"5">>)

Documents == {Store1, Store2, Store3, ListDoc, StrDoc, IntDoc}

RECURSIVE Dumps(_), DumpsMembers(_, _)

\* json.dumps(v), as tokens: how a document gets into a file or a body.
Dumps(v) ==
    CASE v.t = "str" -> <<StrTok(v.s)>>
      [] v.t = "int" -> <<NumTok(v.s)>>
      [] v.t = "bool" -> <<LitTok(v.s)>>
      [] v.t = "NoneType" -> <<LitTok(<<"null">>)>>
      [] v.t = "dict" -> <<Punct("{")>> \o DumpsMembers(v.m, TRUE) \o <<Punct("}")>>
      [] v.t = "list" -> <<Punct("[")>> \o DumpsMembers(v.m, FALSE) \o <<Punct("]")>>

DumpsMembers(m, keyed) ==
    IF m = <<>> THEN <<>>
    ELSE (IF keyed THEN <<StrTok(m[1].k), Punct(":")>> ELSE <<>>)
         \o Dumps(m[1].v)
         \o (IF Len(m) > 1 THEN <<Punct(",")>> ELSE <<>>)
         \o DumpsMembers(Tail(m), keyed)

\* {"u1": 1, "u1": 2}: a text that names a key twice
DupText ==
    <<Punct("{"), StrTok(U1), Punct(":"), NumTok(<<"1">>), Punct(","),
      StrTok(U1), Punct(":"), NumTok(<<"2">>), Punct("}")>>
\* {"u1": 1     the closing brace is missing
Truncated == <<Punct("{"), StrTok(U1), Punct(":"), NumTok(<<"1">>)>>
\* {} {}        data after the document
ExtraData == <<Punct("{"), Punct("}"), Punct("{"), Punct("}")>>

Texts == { Dumps(d) : d \in Documents } \cup {DupText, Truncated, ExtraData}

NoFile == [exists |-> FALSE, toks |-> <<>>]
File(toks) == [exists |-> TRUE, toks |-> toks]
Response(status, body) == [status |-> status, body |-> body]

\* The local paths whose file the environment rewrites, the URLs whose
\* response it changes, and what it serves.
Writable == {AaJson}
Served == {JsonBin}
Responses ==
    {Response(200, Dumps(Store1)), Response(200, Truncated),
     Response(500, Dumps(Store1))}
EnvValues == {EmptyStr, U1}

(***************************************************************************)
(* _load_json                                                              *)
(*                                                                         *)
(* The result of a call is a record: raised says whether it raised, exc    *)
(* names the exception class, status is the status code an                 *)
(* httpx.HTTPStatusError carries, data is the value returned, io lists     *)
(* the reads the call made and parses counts the texts it parsed.  The     *)
(* GET is taken to produce a response and open() to find the file or not;  *)
(* transport failures and permission errors are left out.                  *)
(***************************************************************************)
LoadRaise(exc, status, io, parses) ==
    [raised |-> TRUE, exc |-> exc, status |-> status, data |-> PyNone,
     io |-> io, parses |-> parses]
LoadReturn(data, io) ==
    [raised |-> FALSE, exc |-> "", status |-> 0, data |-> data,
     io |-> io, parses |-> 1]

\* resp.is_success, which raise_for_status tests
is_success(resp) == 200 <= resp.status /\ resp.status <= 299

\* A variant of HttpLoad without raise_for_status: the body is parsed
\* whatever the status.
HttpLoad_unchecked(source, resp) ==
    LET io == << [op |-> "GET", target |-> source] >>
        j == json_load(resp.body)
    IN  IF j.raised THEN LoadRaise("JSONDecodeError", 0, io, 1)
        ELSE LoadReturn(j.data, io)

\* resp.raise_for_status(); return resp.json()
HttpLoad(source, resp) ==
    LET io == << [op |-> "GET", target |-> source] >>
    IN  IF ~is_success(resp)
        THEN LoadRaise("HTTPStatusError", resp.status, io, 0)
        ELSE LET j == json_load(resp.body)
             IN  IF j.raised THEN LoadRaise("JSONDecodeError", 0, io, 1)
                 ELSE LoadReturn(j.data, io)

\* A variant of FileLoad that takes a missing file for an empty document.
FileLoad_lenient(source, file) ==
    LET io == << [op |-> "open", target |-> source] >>
        j == json_load(file.toks)
    IN  IF ~file.exists THEN LoadReturn(PyDict(<<>>), io)
        ELSE IF j.raised THEN LoadRaise("JSONDecodeError", 0, io, 1)
        ELSE LoadReturn(j.data, io)

\* with open(source) as f: return json.load(f)
FileLoad(source, file) ==
    LET io == << [op |-> "open", target |-> source] >>
    IN  IF ~file.exists
        THEN LoadRaise("FileNotFoundError", 0, io, 0)
        ELSE LET j == json_load(file.toks)
             IN  IF j.raised THEN LoadRaise("JSONDecodeError", 0, io, 1)
                 ELSE LoadReturn(j.data, io)

IsUrl(source) == StartsWith(source, HttpPrefix) \/ StartsWith(source, HttpsPrefix)

\* A variant of load_json that keeps what the call before read from the
\* same source.
load_json_cached(source) ==
    IF last.called /\ last.source = source
    THEN IF IsUrl(source) THEN HttpLoad(source, last.seen.resp)
         ELSE FileLoad(source, last.seen.file)
    ELSE IF IsUrl(source) THEN HttpLoad(source, web[source])
         ELSE FileLoad(source, fs[source])

load_json(source) ==
    IF IsUrl(source) THEN HttpLoad(source, web[source])
    ELSE FileLoad(source, fs[source])

(***************************************************************************)
(* get_portfolio_by_key                                                    *)
(***************************************************************************)

\* The text before the key in the KeyError message
KeyErrorPrefix ==
    <<"hg_jon", "hg_jae", "hg_ha", "hg_ji", " ", "hg_anh", "hg_neun", " ",
      "a", "c", "c", "e", "s", "s", "_", "k", "e", "y", ":", " ">>

\* key in data, for a str key: membership in a dict's keys, equality with
\* an item of a list, containment in a str; TypeError for a value that is
\* not a container.
PyIn(key, data) ==
    CASE data.t = "dict" ->
           [raised |-> FALSE, is_in |-> \E i \in 1..Len(data.m) : data.m[i].k = key]
      [] data.t = "list" ->
           [raised |-> FALSE,
            is_in |-> \E i \in 1..Len(data.m) : data.m[i].v = PyStr(key)]
      [] data.t = "str" ->
           [raised |-> FALSE, is_in |-> Contains(data.s, key)]
      [] OTHER -> [raised |-> TRUE, is_in |-> FALSE]

\* A variant of PyGetItem that returns the first member of a dict.
PyGetItem_first(data, key) ==
    IF data.t = "dict"
    THEN [raised |-> FALSE, value |-> data.m[1].v]
    ELSE [raised |-> TRUE, value |-> PyNone]

\* data[key], for a str key that is in data: the member's value of a
\* dict; TypeError for a list or a str, whose indices are integers.
PyGetItem(data, key) ==
    IF data.t = "dict"
    THEN [raised |-> FALSE,
          value |-> data.m[CHOOSE i \in 1..Len(data.m) : data.m[i].k = key].v]
    ELSE [raised |-> TRUE, value |-> PyNone]

Raise(exc, status, msg, ld) ==
    [raised |-> TRUE, exc |-> exc, status |-> status, msg |-> msg,
     value |-> PyNone, io |-> ld.io, parses |-> ld.parses]
Return(value, ld) ==
    [raised |-> FALSE, exc |-> "", status |-> 0, msg |-> <<>>,
     value |-> value, io |-> ld.io, parses |-> ld.parses]

\* Lines 25-27, on the loaded data
IndexByKey(access_key, ld) ==
    LET member == PyIn(access_key, ld.data)
    IN  IF member.raised THEN Raise("TypeError", 0, <<>>, ld)
        ELSE IF ~member.is_in
             THEN Raise("KeyError", 0, KeyErrorPrefix \o access_key, ld)
             ELSE LET item == PyGetItem(ld.data, access_key)
                  IN  IF item.raised THEN Raise("TypeError", 0, <<>>, ld)
                      ELSE Return(item.value, ld)

get_portfolio_by_key(access_key, source) ==
    LET ld == load_json(source)
    IN  IF ld.raised THEN Raise(ld.exc, ld.status, <<>>, ld)
        ELSE IndexByKey(access_key, ld)

(***************************************************************************)
(* get_portfolio                                                           *)
(***************************************************************************)

\* An access_key argument: None, or a str
None == [none |-> TRUE, s |-> <<>>]
Str(s) == [none |-> FALSE, s |-> s]

\* A variant of getenv that does not read the environment.
getenv_fallback(default) == default

\* os.getenv("DEFAULT_ACCESS_KEY", default)
getenv(default) ==
    IF environ.is_set THEN environ.value ELSE default

\* A variant of EffectiveKey in which a set DEFAULT_ACCESS_KEY overrides
\* the key the caller gives.
EffectiveKey_override(access_key) ==
    IF access_key.none \/ access_key.s = <<>> \/ environ.is_set
    THEN IF environ.is_set THEN environ.value ELSE User123
    ELSE access_key.s

\* The key get_portfolio passes on: not access_key holds of None and of ""
EffectiveKey(access_key) ==
    IF access_key.none \/ access_key.s = <<>>
    THEN getenv(User123)
    ELSE access_key.s

get_portfolio(access_key, source) ==
    [key |-> EffectiveKey(access_key),
     outcome |-> get_portfolio_by_key(EffectiveKey(access_key), source)]

(***************************************************************************)
(* The state machine                                                       *)
(***************************************************************************)
SuppliedKeys == {None, Str(EmptyStr), Str(U1), Str(User123)}

NoLoad == [io |-> <<>>, parses |-> 0]
NoCall ==
    [called |-> FALSE, access_key |-> None, source |-> <<>>,
     seen |-> [file |-> NoFile, resp |-> Response(0, <<>>),
               environ |-> [is_set |-> FALSE, value |-> <<>>]],
     key |-> <<>>, outcome |-> Return(PyNone, NoLoad), differs |-> FALSE]

\* The host calls the tool get_portfolio.  seen records what the source
\* held and what os.environ held when the call was made; differs says
\* that the call before had the same arguments and another outcome.
GetPortfolio ==
    /\ \E access_key \in SuppliedKeys, source \in Sources :
          LET r == get_portfolio(access_key, source)
          IN  last' = [called |-> TRUE, access_key |-> access_key,
                       source |-> source,
                       seen |-> [file |-> fs[source], resp |-> web[source],
                                 environ |-> environ],
                       key |-> r.key, outcome |-> r.outcome,
                       differs |-> /\ last.called
                                   /\ last.access_key = access_key
                                   /\ last.source = source
                                   /\ last.outcome # r.outcome]
    /\ UNCHANGED <<fs, web, environ, cls>>

\* The environment rewrites or removes a local file.
WriteFile ==
    /\ \E path \in Writable, text \in Texts :
          fs' = [fs EXCEPT ![path] = File(text)]
    /\ UNCHANGED <<web, environ, last, cls>>

RemoveFile ==
    /\ \E path \in Writable :
          /\ fs[path].exists
          /\ fs' = [fs EXCEPT ![path] = NoFile]
    /\ UNCHANGED <<web, environ, last, cls>>

\* The environment changes what a URL answers.
Serve ==
    /\ \E url \in Served, resp \in Responses :
          web' = [web EXCEPT ![url] = resp]
    /\ UNCHANGED <<fs, environ, last, cls>>

\* The environment sets or unsets DEFAULT_ACCESS_KEY.
SetEnv ==
    /\ \E v \in EnvValues : environ' = [is_set |-> TRUE, value |-> v]
    /\ UNCHANGED <<fs, web, last, cls>>

UnsetEnv ==
    /\ environ.is_set
    /\ environ' = [is_set |-> FALSE, value |-> <<>>]
    /\ UNCHANGED <<fs, web, last, cls>>

InitWorld ==
    /\ fs = [s \in Sources |-> IF s = NearUrl THEN File(Dumps(Store2)) ELSE NoFile]
    /\ web = [s \in Sources |->
                CASE s = JsonBin -> Response(200, Dumps(Store1))
                  [] s = PlainUrl -> Response(404, Dumps(Store2))
                  [] OTHER -> Response(0, <<>>)]
    /\ environ = [is_set |-> FALSE, value |-> <<>>]
    /\ last = NoCall

Init ==
    /\ InitWorld
    /\ cls = [called |-> FALSE, question |-> <<>>, result |-> NoClassification]

Next ==
    \/ GetPortfolio
    \/ WriteFile
    \/ RemoveFile
    \/ Serve
    \/ SetEnv
    \/ UnsetEnv

Spec == Init /\ [][Next]_vars

\* The classifier alone: the question is drawn at the start, the call
\* applies the function to it.
InitClassify ==
    /\ InitWorld
    /\ cls \in { [called |-> FALSE, question |-> q, result |-> NoClassification] :
                 q \in Questions }

NextClassify == IsPortfolioQuestion

SpecClassify == InitClassify /\ [][NextClassify]_vars

(***************************************************************************)
(* Properties                                                              *)
(***************************************************************************)

\* needle occurs in hay, stated by position and length
IsSubstring(needle, hay) ==
    \E i \in 1..(Len(hay) + 1) :
        \E j \in (i - 1)..Len(hay) : SubSeq(hay, i, j) = needle

\* The position of a keyword in the fixed list
KeywordIndex(kw) ==
    CHOOSE i \in 1..Len(portfolio_keywords) : portfolio_keywords[i] = kw

\* The sources that begin with http:// or https://
UrlSources == {PlainUrl, JsonBin}

\* The last call read text from its source: a 2xx response with that
\* body, or an existing file with that content.
Delivered(text) ==
    /\ last.called
    /\ \/ /\ last.source \in UrlSources
          /\ last.seen.resp.status \in 200..299
          /\ last.seen.resp.body = text
       \/ /\ last.source \notin UrlSources
          /\ last.seen.file.exists
          /\ last.seen.file.toks = text

\* The top-level keys of a loaded document: a document that is no object
\* has none.
TopLevelKeys(data) ==
    IF data.t = "dict" THEN { data.m[i].k : i \in 1..Len(data.m) } ELSE {}

\* C1: is_portfolio_related is true exactly when some keyword of the list
\* is a substring of the lower-cased question, and exactly when
\* detected_keywords is not empty.
C1_RelatedIffKeyword ==
    cls.called =>
        LET lowered == Lower(cls.question)
            some == \E i \in 1..Len(portfolio_keywords) :
                        IsSubstring(portfolio_keywords[i], lowered)
        IN  /\ cls.result.is_portfolio_related = some
            /\ cls.result.is_portfolio_related
                   = (cls.result.detected_keywords # <<>>)
            /\ ~some => cls.result.detected_keywords = <<>>

\* A question with a keyword that is not at its start was classified.
C1_Witness ==
    /\ cls.called
    /\ cls.result.is_portfolio_related
    /\ cls.result.detected_keywords # <<>>
    /\ cls.question[1] = "A"

\* C2: detected_keywords holds every keyword of the list that is a
\* substring of the lower-cased question and nothing else, each once, in
\* the order of the list.
C2_DetectedKeywords ==
    cls.called =>
        LET lowered == Lower(cls.question)
            d == cls.result.detected_keywords
        IN  /\ \A i \in 1..Len(portfolio_keywords) :
                  IsSubstring(portfolio_keywords[i], lowered)
                      <=> \E j \in 1..Len(d) : d[j] = portfolio_keywords[i]
            /\ \A j \in 1..Len(d) :
                  \E i \in 1..Len(portfolio_keywords) : d[j] = portfolio_keywords[i]
            /\ \A j1, j2 \in 1..Len(d) :
                  j1 < j2 => KeywordIndex(d[j1]) < KeywordIndex(d[j2])

\* Two keywords were detected in a question that begins with the later
\* one of the list.
C2_Witness ==
    /\ cls.called
    /\ Len(cls.result.detected_keywords) >= 2
    /\ StartsWith(cls.question, cls.result.detected_keywords[2])

\* C3: when the source delivers the serialisation of an object, a lookup
\* of any of its keys returns the value stored under that key; a text
\* that names a key twice returns the later value.
C3_RoundTrip ==
    /\ \A d \in Documents :
          (d.t = "dict" /\ Delivered(Dumps(d))) =>
              \A i \in 1..Len(d.m) :
                  last.key = d.m[i].k =>
                      /\ ~last.outcome.raised
                      /\ last.outcome.value = d.m[i].v
    /\ (Delivered(DupText) /\ last.key = U1) =>
          /\ ~last.outcome.raised
          /\ last.outcome.value = PyInt(<<"2">>)

\* The second key of a two-member document was looked up.
C3_Witness ==
    /\ Delivered(Dumps(Store2))
    /\ last.key = U1
    /\ last.outcome.value = PyInt(<<"2">>)

\* C4: when the load succeeds and the access key is no top-level key of
\* the loaded document, the lookup raises KeyError with the message
\* naming that key, and returns nothing.
C4_KeyNotFound ==
    \A text \in Texts :
        (/\ Delivered(text)
         /\ ~json_load(text).raised
         /\ last.key \notin TopLevelKeys(json_load(text).data)) =>
            /\ last.outcome.raised
            /\ last.outcome.exc = "KeyError"
            /\ last.outcome.msg = KeyErrorPrefix \o last.key
            /\ last.outcome.value = PyNone

\* C5: with no access key supplied, the key looked up is the value of
\* DEFAULT_ACCESS_KEY when it is set and "user123" otherwise.
C5_DefaultKey ==
    (last.called /\ last.access_key.none) =>
        last.key = IF last.seen.environ.is_set
                   THEN last.seen.environ.value
                   ELSE User123

\* A call without a key was made with DEFAULT_ACCESS_KEY set to "u1".
C5_Witness ==
    /\ last.called
    /\ last.access_key.none
    /\ last.seen.environ.is_set
    /\ last.key = U1

\* C6: for a URL source, a response whose status is not 2xx makes the
\* lookup raise HTTPStatusError with that status; the body is not parsed
\* and nothing is returned.
C6_HttpStatus ==
    (/\ last.called
     /\ last.source \in UrlSources
     /\ last.seen.resp.status \notin 200..299) =>
        /\ last.outcome.raised
        /\ last.outcome.exc = "HTTPStatusError"
        /\ last.outcome.status = last.seen.resp.status
        /\ last.outcome.parses = 0
        /\ last.outcome.value = PyNone

\* The default source answered 500 with a well-formed body.
C6_Witness ==
    /\ last.called
    /\ last.source = JsonBin
    /\ last.seen.resp = Response(500, Dumps(Store1))
    /\ last.outcome.exc = "HTTPStatusError"

\* C7: a lookup returns a value or raises one of HTTPStatusError,
\* FileNotFoundError, JSONDecodeError and KeyError, and a lookup that
\* raises returns nothing.
C7_FourErrorKinds ==
    last.called =>
        \/ ~last.outcome.raised
        \/ /\ last.outcome.exc \in {"HTTPStatusError", "FileNotFoundError",
                                    "JSONDecodeError", "KeyError"}
           /\ last.outcome.value = PyNone

\* What a lookup of key gives on what the last call saw at its source
FreshOutcome(key) ==
    LET ld == IF last.source \in UrlSources
              THEN HttpLoad(last.source, last.seen.resp)
              ELSE FileLoad(last.source, last.seen.file)
    IN  IF ld.raised THEN Raise(ld.exc, ld.status, <<>>, ld)
        ELSE IndexByKey(key, ld)

\* C8: a lookup reads its source once, and its outcome is the one the
\* content of the source at that time gives.
C8_NoCache ==
    last.called =>
        /\ Len(last.outcome.io) = 1
        /\ last.outcome.io[1].target = last.source
        /\ last.outcome = FreshOutcome(last.key)

\* A lookup had another outcome than the lookup before it, which had the
\* same arguments.
C8_Witness ==
    /\ last.called
    /\ last.differs

\* C9: for a local path with no file, the lookup raises
\* FileNotFoundError whatever the key.
C9_LoadBeforeIndex ==
    (/\ last.called
     /\ last.source \notin UrlSources
     /\ ~last.seen.file.exists) =>
        /\ last.outcome.raised
        /\ last.outcome.exc = "FileNotFoundError"

\* A key was looked up in a file that does not exist.
C9_Witness ==
    /\ last.called
    /\ last.source = AaJson
    /\ ~last.seen.file.exists
    /\ last.key = U1
    /\ last.outcome.exc = "FileNotFoundError"

\* C10, as claimed: whenever a str is supplied, the empty str too, the
\* lookup uses that key.
C10_AnySuppliedKey ==
    (last.called /\ ~last.access_key.none) =>
        /\ last.key = last.access_key.s
        /\ last.outcome = FreshOutcome(last.access_key.s)

\* C10, amended: whenever a str that is not empty is supplied, the lookup
\* uses that key and DEFAULT_ACCESS_KEY has no effect; the empty str is
\* replaced by the default like None.
C10_NonEmptySuppliedKey ==
    /\ (last.called /\ ~last.access_key.none /\ last.access_key.s # <<>>) =>
          /\ last.key = last.access_key.s
          /\ last.outcome = FreshOutcome(last.access_key.s)
    /\ (last.called /\ ~last.access_key.none /\ last.access_key.s = <<>>) =>
          last.key = IF last.seen.environ.is_set
                     THEN last.seen.environ.value
                     ELSE User123

\* A key was supplied while DEFAULT_ACCESS_KEY named another one.
C10_Witness ==
    /\ last.called
    /\ last.access_key = Str(User123)
    /\ last.seen.environ.is_set
    /\ last.seen.environ.value = U1
    /\ last.key = User123

====
